---- MODULE Spec2Model ----
(***************************************************************************)
(* calculate_strategy_data of src/src/backtester_decisions.py, for one     *)
(* strategy: the left join of the return series against the strategy's     *)
(* decisions, the position state machine (bh, st, mt, lt), the trade       *)
(* period list, the daily classification and the overall statistics.       *)
(*                                                                         *)
(* Dates are whole days (integers).  The evaluation instant `now` is a day *)
(* plus a time of day (tod = 0 is midnight, tod = 1 any later instant),    *)
(* as datetime.now() returns.  Compounded returns are exact rationals      *)
(* [num, den] in lowest terms; floating point rounding is not modelled.    *)
(***************************************************************************)
EXTENDS Integers, Sequences, FiniteSets, TLC

VARIABLES
    returns_data,          \* the price rows as fetched: rows [date, close], in input order
    returns_df,            \* the return series: rows [date, daily_return], dates ascending
    decisions_df,          \* the decision input: one date-sorted stream per strategy, in unique() order
    strategy_decisions,    \* one strategy's decisions: rows [date, action], in input order
    now,                   \* datetime.now(): [day, tod]
    pc,                    \* position in calculate_strategy_data
    df,                    \* the merged, date-sorted table the flag loop iterates over
    bh, st_val, mt_val, lt_val, last_buy_date,   \* the flag loop's carried state
    bh_list, st_list, mt_list, lt_list,          \* the flag columns built so far
    position_stats,        \* per-horizon cum_return and accuracy
    returns_list,          \* tradeReturns
    position_held, last_position_change,         \* the decision walks' carried state
    k,                     \* index of the next decision of the current walk
    periods,               \* the classification loop's period list
    daily_returns,         \* dailyReturns
    held_cumulative_return, buy_and_hold_return,
    strategy_data          \* the returned dict: <<>> is {}, <<r>> holds one strategy's record

vars == <<returns_data, returns_df, decisions_df, strategy_decisions, now, pc, df, bh, st_val, mt_val, lt_val,
          last_buy_date, bh_list, st_list, mt_list, lt_list, position_stats,
          returns_list, position_held, last_position_change, k, periods,
          daily_returns, held_cumulative_return, buy_and_hold_return, strategy_data>>

(***************************************************************************)
(* Bounds of the model and program constants                               *)
(***************************************************************************)
MaxDay == 2          \* dates of the pipeline specification are 0..MaxDay
MaxDec == 2          \* at most this many decisions in the pipeline specification
MaxFlagRows == 4     \* rows of the return series in the flag specification
MaxScenarioDays == 30 \* longest daily series of the buy@1/sell@25 scenario

st == 20
mt == 100
lt == 250

None == -1           \* Python None for last_buy_date (dates are >= 0)
NaN == "<NaN>"       \* the action of a row the left join found no decision for

Days == 0 .. MaxDay
RetSet == {-10, 10}                        \* daily_return values, in percent
ActionSet == {"buy", "sell", "hold"}         \* actions of the pipeline specification
CaseActionSet == {"buy", "sell", "BUY", "SELL"}  \* actions of the letter-case specification
GapSet == {1, 20, 80, 150}                 \* day gaps between rows in the flag specification

\* str.lower() on the action strings of the model
Lower(s) == IF s = "BUY" THEN "buy" ELSE IF s = "SELL" THEN "sell" ELSE s

(***************************************************************************)
(* Exact rationals                                                         *)
(***************************************************************************)
Abs(x) == IF x < 0 THEN -x ELSE x

RECURSIVE GCD(_, _)
GCD(a, b) == IF b = 0 THEN a ELSE GCD(b, a % b)

Rat(n, d) == LET g == GCD(Abs(n), d) IN [num |-> n \div g, den |-> d \div g]
RatMul(a, b) == Rat(a.num * b.num, a.den * b.den)
RatAdd(a, b) == Rat(a.num * b.den + b.num * a.den, a.den * b.den)
Zero == Rat(0, 1)

(***************************************************************************)
(* Helpers over sequences                                                  *)
(***************************************************************************)
MinOf(S) == CHOOSE x \in S : \A y \in S : x <= y
MaxOf(S) == CHOOSE x \in S : \A y \in S : x >= y
DatesOf(t) == {t[j].date : j \in 1 .. Len(t)}

RECURSIVE SortedSeq(_)
SortedSeq(S) == IF S = {} THEN << >>
                ELSE LET m == MinOf(S) IN <<m>> \o SortedSeq(S \ {m})

RECURSIVE Perms(_)
Perms(S) == IF S = {} THEN {<< >>}
            ELSE UNION {{<<x>> \o p : p \in Perms(S \ {x})} : x \in S}

IsSortedByDate(t) == \A a, b \in 1 .. Len(t) : a < b => t[a].date <= t[b].date

(***************************************************************************)
(* Left join of the return series against the decisions, sorted by date    *)
(* (pd.merge how='left', then sort_values('date')).  A date with several   *)
(* decisions yields one row per decision; sort_values uses quicksort,      *)
(* which is not stable, so rows of equal date come in any order.           *)
(***************************************************************************)
Matching(decisions, date) == {j \in 1 .. Len(decisions) : decisions[j].date = date}

JoinRows(row, decisions) ==
    LET m == Matching(decisions, row.date) IN
    IF m = {}
    THEN {<<[date |-> row.date, daily_return |-> row.daily_return, action |-> NaN]>>}
    ELSE {[j \in 1 .. Len(p) |-> [date |-> row.date, daily_return |-> row.daily_return,
                                  action |-> decisions[p[j]].action]] : p \in Perms(m)}

RECURSIVE MergeSorted(_, _, _)
MergeSorted(returns, decisions, j) ==
    IF j > Len(returns) THEN {<< >>}
    ELSE {h \o t : h \in JoinRows(returns[j], decisions),
                   t \in MergeSorted(returns, decisions, j + 1)}

(***************************************************************************)
(* The position state machine: one step per row of the merged table        *)
(***************************************************************************)
FlagState == [bh |-> bh, st_val |-> st_val, mt_val |-> mt_val, lt_val |-> lt_val,
              last_buy_date |-> last_buy_date]

InitialFlags == [bh |-> 0, st_val |-> 0, mt_val |-> 0, lt_val |-> 0, last_buy_date |-> None]

\* days_since_buy > st, > mt, > lt
ExpiredOrEqual(days_since_buy, window) == days_since_buy >= window
Expired(days_since_buy, window) == days_since_buy > window

\* action == 'buy'
BuyStepResetsBh(s, date) ==
    [bh |-> IF s.last_buy_date = None THEN 1 ELSE 0,
     st_val |-> 1, mt_val |-> 1, lt_val |-> 1, last_buy_date |-> date]
BuyStepKeepsFirstDate(s, date) ==
    [bh |-> IF s.last_buy_date = None THEN 1 ELSE s.bh,
     st_val |-> 1, mt_val |-> 1, lt_val |-> 1,
     last_buy_date |-> IF s.last_buy_date = None THEN date ELSE s.last_buy_date]
BuyStep(s, date) ==
    [bh |-> IF s.last_buy_date = None THEN 1 ELSE s.bh,
     st_val |-> 1, mt_val |-> 1, lt_val |-> 1, last_buy_date |-> date]

\* action == 'sell'
SellStepKeepsBuyDate(s) == [s EXCEPT !.bh = 0, !.st_val = 0, !.mt_val = 0, !.lt_val = 0]
SellStep(s) == [bh |-> 0, st_val |-> 0, mt_val |-> 0, lt_val |-> 0, last_buy_date |-> None]

\* any other row: decay of st, mt, lt by the days since the last buy
DecayStepClearsBh(s, date) ==
    IF s.last_buy_date # None
    THEN LET days_since_buy == date - s.last_buy_date IN
         [s EXCEPT !.bh = IF Expired(days_since_buy, st) THEN 0 ELSE @,
                   !.st_val = IF Expired(days_since_buy, st) THEN 0 ELSE @,
                   !.mt_val = IF Expired(days_since_buy, mt) THEN 0 ELSE @,
                   !.lt_val = IF Expired(days_since_buy, lt) THEN 0 ELSE @]
    ELSE s
DecayStepOneWindow(s, date) ==
    IF s.last_buy_date # None
    THEN LET days_since_buy == date - s.last_buy_date IN
         [s EXCEPT !.st_val = IF Expired(days_since_buy, st) THEN 0 ELSE @,
                   !.mt_val = IF Expired(days_since_buy, st) THEN 0 ELSE @,
                   !.lt_val = IF Expired(days_since_buy, st) THEN 0 ELSE @]
    ELSE s
DecayStepSwapsWindows(s, date) ==
    IF s.last_buy_date # None
    THEN LET days_since_buy == date - s.last_buy_date IN
         [s EXCEPT !.st_val = IF Expired(days_since_buy, lt) THEN 0 ELSE @,
                   !.mt_val = IF Expired(days_since_buy, mt) THEN 0 ELSE @,
                   !.lt_val = IF Expired(days_since_buy, st) THEN 0 ELSE @]
    ELSE s
DecayStep(s, date) ==
    IF s.last_buy_date # None
    THEN LET days_since_buy == date - s.last_buy_date IN
         [s EXCEPT !.st_val = IF Expired(days_since_buy, st) THEN 0 ELSE @,
                   !.mt_val = IF Expired(days_since_buy, mt) THEN 0 ELSE @,
                   !.lt_val = IF Expired(days_since_buy, lt) THEN 0 ELSE @]
    ELSE s

\* the body of `for _, row in df.iterrows()`; a NaN action reads as None,
\* which is neither 'buy' nor 'sell'; the comparison is case-sensitive
RowStep(s, row) ==
    IF row.action = "buy" THEN BuyStep(s, row.date)
    ELSE IF row.action = "sell" THEN SellStep(s)
    ELSE DecayStep(s, row.date)

\* the flag columns of a whole table, as the loop builds them
RECURSIVE RunFlags(_, _, _)
RunFlags(table, j, s) ==
    IF j > Len(table) THEN << >>
    ELSE LET n == RowStep(s, table[j]) IN
         <<[bh |-> n.bh, st |-> n.st_val, mt |-> n.mt_val, lt |-> n.lt_val]>>
            \o RunFlags(table, j + 1, n)

(***************************************************************************)
(* Per-horizon statistics over the flagged table                           *)
(***************************************************************************)
Cols == {"bh", "st", "mt", "lt"}
Column(c) == IF c = "bh" THEN bh_list ELSE IF c = "st" THEN st_list
             ELSE IF c = "mt" THEN mt_list ELSE lt_list

RECURSIVE CumSum(_, _)
CumSum(col, j) == IF j = 0 THEN 0 ELSE CumSum(col, j - 1) + col[j] * df[j].daily_return

AccuracyCountsEveryRise(col) ==
    LET num_positive == Cardinality({j \in 1 .. Len(col) : df[j].daily_return > 0})
        total_days == Cardinality({j \in 1 .. Len(col) : col[j] = 1})
    IN IF total_days > 0 THEN Rat(num_positive, total_days) ELSE Zero

\* lines 160-162: num_positive / total_days if total_days > 0 else 0
Accuracy(col) ==
    LET num_positive == Cardinality({j \in 1 .. Len(col) : col[j] = 1 /\ df[j].daily_return > 0})
        total_days == Cardinality({j \in 1 .. Len(col) : col[j] = 1})
    IN IF total_days > 0 THEN Rat(num_positive, total_days) ELSE Zero

NoStats == [c \in Cols |-> [cum_return |-> 0, accuracy |-> Zero]]

(***************************************************************************)
(* Initial states                                                          *)
(***************************************************************************)
\* a return series: strictly ascending unique dates (lines 80-86 sort and
\* de-duplicate it), every row with a defined return
Table(S, f) == LET ds == SortedSeq(S) IN
               [j \in 1 .. Len(ds) |-> [date |-> ds[j], daily_return |-> f[ds[j]]]]
ReturnTables(D) == UNION {{Table(S, f) : f \in [S -> RetSet]} : S \in SUBSET D}

DecisionRows(D, A) == [date : D, action : A]
DecisionStreams(D, A, n) ==
    UNION {{s \in [1 .. m -> DecisionRows(D, A)] : IsSortedByDate(s)} : m \in 0 .. n}

\* everything but the inputs, at entry of calculate_strategy_data
Fresh ==
    /\ df = << >>
    /\ bh = 0 /\ st_val = 0 /\ mt_val = 0 /\ lt_val = 0 /\ last_buy_date = None
    /\ bh_list = << >> /\ st_list = << >> /\ mt_list = << >> /\ lt_list = << >>
    /\ position_stats = NoStats
    /\ returns_list = << >>
    /\ position_held = FALSE /\ last_position_change = None
    /\ k = 1
    /\ periods = << >>
    /\ daily_returns = << >>
    /\ held_cumulative_return = Zero /\ buy_and_hold_return = Zero
    /\ strategy_data = << >>

\* entry of calculate_strategy_data with the decisions of a single strategy;
\* the price rows the series was built from are not read again
Entry ==
    /\ pc = "start"
    /\ returns_data = << >>
    /\ decisions_df = IF strategy_decisions = << >> THEN << >> ELSE <<strategy_decisions>>
    /\ Fresh

\* the pipeline specification: any return series over Days, any date-sorted
\* decision stream, now not before the last return date (the series is
\* fetched up to the current date, line 70-71)
Init ==
    /\ returns_df \in ReturnTables(Days)
    /\ strategy_decisions \in DecisionStreams(Days, ActionSet, MaxDec)
    /\ now \in [day : 0 .. MaxDay + 1, tod : {0, 1}]
    /\ returns_df # << >> => now.day >= MaxOf(DatesOf(returns_df))
    /\ Entry

\* the same pipeline over decisions whose actions differ in letter case only
InitCase ==
    /\ returns_df \in ReturnTables(Days)
    /\ strategy_decisions \in DecisionStreams(Days, CaseActionSet, MaxDec)
    /\ now \in [day : 0 .. MaxDay + 1, tod : {0, 1}]
    /\ returns_df # << >> => now.day >= MaxOf(DatesOf(returns_df))
    /\ Entry

(***************************************************************************)
(* Actions                                                                 *)
(***************************************************************************)
inputs == <<returns_data, returns_df, decisions_df, strategy_decisions, now>>
flagVars == <<bh, st_val, mt_val, lt_val, last_buy_date, bh_list, st_list, mt_list, lt_list>>
walkVars == <<position_held, last_position_change, k>>
outVars == <<held_cumulative_return, buy_and_hold_return, strategy_data>>

EmptyInputIgnoresReturns(decisions, returns) == decisions = << >>

EmptyInputIgnoresDecisions(decisions, returns) == returns = << >>

\* line 96: decisions_df.empty or returns_df.empty
EmptyInput(decisions, returns) == decisions = << >> \/ returns = << >>

\* lines 96-97: if decisions_df.empty or returns_df.empty: return {}
ReturnEmpty ==
    /\ pc = "start"
    /\ EmptyInput(strategy_decisions, returns_df)
    /\ pc' = "done"
    /\ strategy_data' = << >>
    /\ UNCHANGED <<inputs, df, flagVars, position_stats, returns_list, walkVars,
                   periods, daily_returns, held_cumulative_return, buy_and_hold_return>>

\* lines 105-121: the merge, the sort and the loop's initial state
BeginStrategy ==
    /\ pc = "start"
    /\ ~EmptyInput(strategy_decisions, returns_df)
    /\ df' \in MergeSorted(returns_df, strategy_decisions, 1)
    /\ bh' = 0 /\ st_val' = 0 /\ mt_val' = 0 /\ lt_val' = 0 /\ last_buy_date' = None
    /\ bh_list' = << >> /\ st_list' = << >> /\ mt_list' = << >> /\ lt_list' = << >>
    /\ pc' = "flags"
    /\ UNCHANGED <<inputs, position_stats, returns_list, walkVars, periods,
                   daily_returns, outVars>>

\* lines 122-150: one iteration of the flag loop
FlagRow ==
    /\ pc = "flags"
    /\ Len(bh_list) < Len(df)
    /\ LET row == df[Len(bh_list) + 1]
           n == RowStep(FlagState, row)
       IN /\ bh' = n.bh /\ st_val' = n.st_val /\ mt_val' = n.mt_val /\ lt_val' = n.lt_val
          /\ last_buy_date' = n.last_buy_date
          /\ bh_list' = Append(bh_list, n.bh)
          /\ st_list' = Append(st_list, n.st_val)
          /\ mt_list' = Append(mt_list, n.mt_val)
          /\ lt_list' = Append(lt_list, n.lt_val)
    /\ UNCHANGED <<inputs, pc, df, position_stats, returns_list, walkVars, periods,
                   daily_returns, outVars>>

\* lines 151-164: the flag columns are complete; per-horizon statistics
PositionStats ==
    /\ pc = "flags"
    /\ Len(bh_list) = Len(df)
    /\ position_stats' = [c \in Cols |-> [cum_return |-> CumSum(Column(c), Len(df)),
                                          accuracy |-> Accuracy(Column(c))]]
    /\ pc' = "first_period"
    /\ UNCHANGED <<inputs, df, flagVars, returns_list, walkVars, periods,
                   daily_returns, outVars>>

(***************************************************************************)
(* Trade periods                                                           *)
(***************************************************************************)
\* returns_df[(returns_df['date'] >= a) & (returns_df['date'] <= b)]
PeriodReturns(a, b) == SelectSeq(returns_df, LAMBDA r : r.date >= a /\ r.date <= b)

\* exp(sum(log(1 + daily_return / 100)))
RECURSIVE Growth(_, _)
Growth(rows, j) == IF j = 0 THEN Rat(1, 1)
                   ELSE RatMul(Growth(rows, j - 1), Rat(100 + rows[j].daily_return, 100))

\* (np.exp(log_returns.sum()) - 1) * 100
CumulativeReturn(rows) == RatMul(RatAdd(Growth(rows, Len(rows)), Rat(-1, 1)), Rat(100, 1))

CountType(list, type) == Cardinality({j \in 1 .. Len(list) : list[j].periodType = type})

LabelCountsEveryPeriod(list, type) ==
    <<IF type = "held" THEN "Held" ELSE "Not Held", Len(list) + 1>>

\* f'Held {n + 1}' and f'Not Held {n + 1}'
Label(list, type) == <<IF type = "held" THEN "Held" ELSE "Not Held", CountType(list, type) + 1>>

\* if duration > 0
DurationNotNegative(duration) == duration >= 0
DurationPositive(duration) == duration > 0

\* the block the four period sites share: lines 180-193, 209-222, 230-243, 265-278
AppendPeriod(list, type, startDate, endDate, period_returns, duration) ==
    IF period_returns # << >> /\ DurationPositive(duration)
    THEN Append(list, [periodType |-> type, startDate |-> startDate, endDate |-> endDate,
                       return |-> CumulativeReturn(period_returns), duration |-> duration,
                       periodLabel |-> Label(list, type)])
    ELSE list

first_decision_date == MinOf(DatesOf(strategy_decisions))
data_start_date == MinOf(DatesOf(returns_df))
data_end_date == MaxOf(DatesOf(returns_df))

\* lines 169-193 for the given decisions
FirstPeriodOf(decisions) ==
    LET first == MinOf(DatesOf(decisions)) IN
    IF first > data_start_date
    THEN AppendPeriod(<< >>, "not_held", data_start_date, first,
                      PeriodReturns(data_start_date, first), first - data_start_date)
    ELSE << >>

\* position_held after a decision (lines 245-250)
PositionIgnoresSell(held, decision) ==
    LET action == Lower(decision.action) IN
    IF action = "buy" THEN TRUE ELSE held
Position(held, decision) ==
    LET action == Lower(decision.action) IN
    IF action = "buy" THEN TRUE ELSE IF action = "sell" THEN FALSE ELSE held

TradeStepTagsAfter(s, decision) ==
    LET decision_date == decision.date
        span == PeriodReturns(s.last_position_change, decision_date)
        duration == decision_date - s.last_position_change
        held == Position(s.position_held, decision)
    IN [returns_list |->
            IF held /\ decision_date > s.last_position_change
            THEN AppendPeriod(s.returns_list, "held", s.last_position_change,
                              decision_date, span, duration)
            ELSE IF ~held /\ decision_date > s.last_position_change
            THEN AppendPeriod(s.returns_list, "not_held", s.last_position_change,
                              decision_date, span, duration)
            ELSE s.returns_list,
        position_held |-> held,
        last_position_change |-> decision_date]

\* the body of the decision loop, lines 199-252
TradeStep(s, decision) ==
    LET decision_date == decision.date
        span == PeriodReturns(s.last_position_change, decision_date)
        duration == decision_date - s.last_position_change
    IN [returns_list |->
            IF s.position_held /\ decision_date > s.last_position_change
            THEN AppendPeriod(s.returns_list, "held", s.last_position_change,
                              decision_date, span, duration)
            ELSE IF ~s.position_held /\ decision_date > s.last_position_change
            THEN AppendPeriod(s.returns_list, "not_held", s.last_position_change,
                              decision_date, span, duration)
            ELSE s.returns_list,
        position_held |-> Position(s.position_held, decision),
        last_position_change |-> decision_date]

\* end_date > last_decision_date, end_date = datetime.now()
NowAfter(date) == now.day > date \/ (now.day = date /\ now.tod > 0)

\* lines 254-278: the trailing held period, up to now; strftime('%Y-%m-%d')
\* keeps the day of now, .days the whole days between
FinalStep(s, decisions) ==
    LET last_decision_date == decisions[Len(decisions)].date IN
    IF s.position_held /\ NowAfter(last_decision_date)
    THEN AppendPeriod(s.returns_list, "held", last_decision_date, now.day,
                      PeriodReturns(last_decision_date, now.day),
                      now.day - last_decision_date)
    ELSE s.returns_list

RECURSIVE TradeWalk(_, _, _)
TradeWalk(decisions, j, s) ==
    IF j > Len(decisions) THEN s ELSE TradeWalk(decisions, j + 1, TradeStep(s, decisions[j]))

\* tradeReturns for the given decisions, lines 166-278
TradeReturns(decisions) ==
    FinalStep(TradeWalk(decisions, 1,
                        [returns_list |-> FirstPeriodOf(decisions), position_held |-> FALSE,
                         last_position_change |-> MinOf(DatesOf(decisions))]),
              decisions)

WalkState == [returns_list |-> returns_list, position_held |-> position_held,
              last_position_change |-> last_position_change]

CarriedPosition == position_held

\* lines 196 and 298: position_held = False
InitialPosition == FALSE

\* lines 166-197
FirstPeriod ==
    /\ pc = "first_period"
    /\ returns_list' = FirstPeriodOf(strategy_decisions)
    /\ position_held' = InitialPosition
    /\ last_position_change' = first_decision_date
    /\ k' = 1
    /\ pc' = "decisions"
    /\ UNCHANGED <<inputs, df, flagVars, position_stats, periods, daily_returns, outVars>>

\* lines 199-252: one decision of the trade walk
TradeDecision ==
    /\ pc = "decisions"
    /\ k <= Len(strategy_decisions)
    /\ LET n == TradeStep(WalkState, strategy_decisions[k])
       IN /\ returns_list' = n.returns_list
          /\ position_held' = n.position_held
          /\ last_position_change' = n.last_position_change
    /\ k' = k + 1
    /\ UNCHANGED <<inputs, pc, df, flagVars, position_stats, periods, daily_returns, outVars>>

\* lines 254-278
FinalPeriod ==
    /\ pc = "decisions"
    /\ k > Len(strategy_decisions)
    /\ returns_list' = FinalStep(WalkState, strategy_decisions)
    /\ pc' = "classify"
    /\ UNCHANGED <<inputs, df, flagVars, position_stats, walkVars, periods,
                   daily_returns, outVars>>

(***************************************************************************)
(* Daily classification: the second walk over the decisions                *)
(***************************************************************************)
\* lines 291-296 for the given decisions
FirstSpanOf(decisions) ==
    LET first == MinOf(DatesOf(decisions)) IN
    IF first > data_start_date
    THEN <<[startDate |-> data_start_date, endDate |-> first, type |-> "not_held"]>>
    ELSE << >>

\* the body of the second decision loop, lines 301-323
ClassifyStep(s, decision) ==
    LET decision_date == decision.date IN
    [periods |->
        IF s.position_held /\ decision_date > s.last_position_change
        THEN Append(s.periods, [startDate |-> s.last_position_change,
                                endDate |-> decision_date, type |-> "held"])
        ELSE IF ~s.position_held /\ decision_date > s.last_position_change
        THEN Append(s.periods, [startDate |-> s.last_position_change,
                                endDate |-> decision_date, type |-> "not_held"])
        ELSE s.periods,
     position_held |-> Position(s.position_held, decision),
     last_position_change |-> decision_date]

\* lines 325-334: the trailing held period, up to the last return date
LastSpan(s, decisions) ==
    LET last_decision_date == MaxOf(DatesOf(decisions)) IN
    IF s.position_held /\ data_end_date > last_decision_date
    THEN Append(s.periods, [startDate |-> last_decision_date, endDate |-> data_end_date,
                            type |-> "held"])
    ELSE s.periods

\* p['startDate'] <= day_date <= p['endDate'], first match
FirstMatch(list, day_date) ==
    LET hits == {j \in 1 .. Len(list) : list[j].startDate <= day_date
                                        /\ day_date <= list[j].endDate}
    IN IF hits = {} THEN 0 ELSE MinOf(hits)

\* lines 337-347: the scan that classifies each day; unmatched days are left out
RECURSIVE Classified(_, _)
Classified(list, j) ==
    IF j > Len(returns_df) THEN << >>
    ELSE LET day == returns_df[j]
             p == FirstMatch(list, day.date)
         IN (IF p # 0
             THEN <<[date |-> day.date, dailyReturn |-> day.daily_return,
                     periodType |-> list[p].type, timestamp |-> day.date]>>
             ELSE << >>) \o Classified(list, j + 1)

RECURSIVE ClassifyWalk(_, _, _)
ClassifyWalk(decisions, j, s) ==
    IF j > Len(decisions) THEN s
    ELSE ClassifyWalk(decisions, j + 1, ClassifyStep(s, decisions[j]))

\* daily_returns for the given decisions, lines 280-347
DailyReturns(decisions) ==
    Classified(LastSpan(ClassifyWalk(decisions, 1,
                                     [periods |-> FirstSpanOf(decisions),
                                      position_held |-> FALSE,
                                      last_position_change |-> MinOf(DatesOf(decisions))]),
                        decisions), 1)

ClassifyState == [periods |-> periods, position_held |-> position_held,
                  last_position_change |-> last_position_change]

\* lines 285-299
ClassifyBegin ==
    /\ pc = "classify"
    /\ periods' = FirstSpanOf(strategy_decisions)
    /\ position_held' = InitialPosition
    /\ last_position_change' = first_decision_date
    /\ k' = 1
    /\ pc' = "classify_decisions"
    /\ UNCHANGED <<inputs, df, flagVars, position_stats, returns_list, daily_returns, outVars>>

\* lines 301-323: one decision of the classification walk
ClassifyDecision ==
    /\ pc = "classify_decisions"
    /\ k <= Len(strategy_decisions)
    /\ LET n == ClassifyStep(ClassifyState, strategy_decisions[k])
       IN /\ periods' = n.periods
          /\ position_held' = n.position_held
          /\ last_position_change' = n.last_position_change
    /\ k' = k + 1
    /\ UNCHANGED <<inputs, pc, df, flagVars, position_stats, returns_list,
                   daily_returns, outVars>>

\* lines 325-347
ClassifyDays ==
    /\ pc = "classify_decisions"
    /\ k > Len(strategy_decisions)
    /\ periods' = LastSpan(ClassifyState, strategy_decisions)
    /\ daily_returns' = Classified(periods', 1)
    /\ pc' = "overall"
    /\ UNCHANGED <<inputs, df, flagVars, position_stats, returns_list, walkVars, outVars>>

(***************************************************************************)
(* Overall statistics and the returned record                              *)
(***************************************************************************)
RECURSIVE SumHeld(_, _)
SumHeld(list, j) ==
    IF j = 0 THEN Zero
    ELSE IF list[j].periodType = "held" THEN RatAdd(SumHeld(list, j - 1), list[j].return)
    ELSE SumHeld(list, j - 1)

\* sorted(daily_returns, key=timestamp): a stable insertion sort
RECURSIVE InsertByTimestamp(_, _)
InsertByTimestamp(sorted, x) ==
    IF sorted = << >> THEN <<x>>
    ELSE IF sorted[Len(sorted)].timestamp <= x.timestamp THEN Append(sorted, x)
    ELSE Append(InsertByTimestamp(SubSeq(sorted, 1, Len(sorted) - 1), x), sorted[Len(sorted)])

RECURSIVE SortedByTimestamp(_, _)
SortedByTimestamp(list, j) ==
    IF j = 0 THEN << >> ELSE InsertByTimestamp(SortedByTimestamp(list, j - 1), list[j])

\* lines 353-357
RECURSIVE SumReturns(_, _)
SumReturns(rows, j) == IF j = 0 THEN 0 ELSE SumReturns(rows, j - 1) + rows[j].daily_return
BuyAndHoldNaiveSum(returns) ==
    IF returns # << >> /\ Len(returns) > 1 THEN Rat(SumReturns(returns, Len(returns)), 1) ELSE Zero
BuyAndHold(returns) == IF returns # << >> /\ Len(returns) > 1 THEN CumulativeReturn(returns) ELSE Zero

\* lines 349-369
OverallStats ==
    /\ pc = "overall"
    /\ held_cumulative_return' = SumHeld(returns_list, Len(returns_list))
    /\ buy_and_hold_return' = BuyAndHold(returns_df)
    /\ strategy_data' = Append(strategy_data,
                          [tradeReturns |-> returns_list,
                           dailyReturns |-> SortedByTimestamp(daily_returns, Len(daily_returns)),
                           overallStats |-> [heldCumulativeReturn |-> held_cumulative_return',
                                             buyAndHoldReturn |-> buy_and_hold_return',
                                             position_stats |-> position_stats]])
    /\ pc' = IF Len(strategy_data') < Len(decisions_df) THEN "next_strategy" ELSE "done"
    /\ UNCHANGED <<inputs, df, flagVars, position_stats, returns_list, walkVars,
                   periods, daily_returns>>

(***************************************************************************)
(* Specifications                                                          *)
(***************************************************************************)
Next ==
    \/ ReturnEmpty
    \/ BeginStrategy
    \/ FlagRow
    \/ PositionStats
    \/ FirstPeriod
    \/ TradeDecision
    \/ FinalPeriod
    \/ ClassifyBegin
    \/ ClassifyDecision
    \/ ClassifyDays
    \/ OverallStats

\* the whole of calculate_strategy_data over small dates
Spec == Init /\ [][Next]_vars

\* the whole of calculate_strategy_data over upper- and lower-case actions
SpecCase == InitCase /\ [][Next]_vars

\* the flag loop alone (it reads the dates and the actions only), over
\* series whose gaps reach the three decay windows
RECURSIVE GapDates(_)
GapDates(n) == IF n = 1 THEN {<<0>>}
               ELSE {Append(d, d[Len(d)] + g) : d \in GapDates(n - 1), g \in GapSet}

FlagActions == {NaN, "buy", "sell", "hold"}

InitFlags ==
    /\ \E n \in 1 .. MaxFlagRows : \E d \in GapDates(n) : \E a \in [1 .. n -> FlagActions] :
          /\ returns_df = [j \in 1 .. n |-> [date |-> d[j], daily_return |-> 10]]
          /\ strategy_decisions =
                LET rows == [j \in 1 .. n |-> [date |-> d[j], action |-> a[j]]]
                IN SelectSeq(rows, LAMBDA r : r.action # NaN)
          /\ now = [day |-> d[n], tod |-> 1]
    /\ strategy_decisions # << >>
    /\ Entry

NextFlags ==
    \/ BeginStrategy
    \/ FlagRow

SpecFlags == InitFlags /\ [][NextFlags]_vars

\* the scenario: one row per calendar day from day 1, buy on day 1, sell on day 25
ScenarioSellDay == 25

InitScenario ==
    /\ \E n \in ScenarioSellDay .. MaxScenarioDays :
          /\ returns_df = [j \in 1 .. n |-> [date |-> j, daily_return |-> 10]]
          /\ now = [day |-> n, tod |-> 1]
    /\ strategy_decisions = <<[date |-> 1, action |-> "buy"],
                              [date |-> ScenarioSellDay, action |-> "sell"]>>
    /\ Entry

SpecScenario == InitScenario /\ [][NextFlags]_vars

(***************************************************************************)
(* Properties of the position state machine                                *)
(***************************************************************************)
Rows == 1 .. Len(bh_list)            \* the rows the flag loop has processed
FlagsComplete == pc # "start" /\ df # << >> /\ Len(bh_list) = Len(df)

\* C1 (as stated in the specification): in the scenario (one row per calendar
\* day, buy on day 1, sell on day 25), st = 1 on days 1..20, st = 0 on days
\* 21..24 while bh is still 1, and bh = mt = lt = 0 from day 25 onward.
C1_ScenarioAsStated ==
    \A j \in Rows :
        LET day == df[j].date IN
        /\ (1 <= day /\ day <= st) => st_list[j] = 1
        /\ (st < day /\ day < ScenarioSellDay) => (st_list[j] = 0 /\ bh_list[j] = 1)
        /\ day >= ScenarioSellDay => (bh_list[j] = 0 /\ mt_list[j] = 0 /\ lt_list[j] = 0)

\* C1 (amended): in the scenario, st = 1 on days 1..21 (the row 20 days after
\* the buy still has st = 1), st = 0 on days 22..24 while bh is still 1, and
\* bh = st = mt = lt = 0 from day 25 onward.
C1_Scenario ==
    \A j \in Rows :
        LET day == df[j].date IN
        /\ (1 <= day /\ day <= st + 1) => st_list[j] = 1
        /\ (st + 1 < day /\ day < ScenarioSellDay) => (st_list[j] = 0 /\ bh_list[j] = 1)
        /\ day >= ScenarioSellDay =>
              (bh_list[j] = 0 /\ st_list[j] = 0 /\ mt_list[j] = 0 /\ lt_list[j] = 0)

\* the scenario's table is fully flagged and runs past the sell day
C1_Witness ==
    /\ FlagsComplete
    /\ Len(df) > ScenarioSellDay
    /\ df[1].action = "buy" /\ df[ScenarioSellDay].action = "sell"
    /\ st_list[st + 2] = 0 /\ bh_list[st + 2] = 1

\* C2: bh goes from 1 to 0 only on a row whose action is sell; a row with no
\* buy and no sell (horizon decay, whatever days_since is) leaves bh as it was.
C2_BhClearedOnlyBySell ==
    \A j \in Rows :
        LET before == IF j = 1 THEN 0 ELSE bh_list[j - 1] IN
        /\ (before = 1 /\ bh_list[j] = 0) => df[j].action = "sell"
        /\ df[j].action \notin {"buy", "sell"} => bh_list[j] = before

\* a row on which st decayed (more than st days after the buy) with bh still 1,
\* and a later sell row that cleared bh
C2_Witness ==
    \E j, m \in Rows :
        /\ 1 < j /\ j < m
        /\ df[j].action = NaN /\ st_list[j - 1] = 1 /\ st_list[j] = 0 /\ bh_list[j] = 1
        /\ df[m].action = "sell" /\ bh_list[m - 1] = 1 /\ bh_list[m] = 0

SellRows == {j \in Rows : df[j].action = "sell"}

\* rows a < b that lie strictly between two consecutive sell rows
BetweenSells(a, b) ==
    /\ a < b
    /\ \E s1, s2 \in SellRows :
          /\ s1 < a /\ b < s2
          /\ \A m \in (s1 + 1) .. (s2 - 1) : m \notin SellRows

\* C3 (as stated in the specification): bh is non-increasing between
\* consecutive sell events: bh[d2] <= bh[d1] for rows d1 < d2 between them.
C3_NonIncreasingAsStated ==
    \A a, b \in Rows : BetweenSells(a, b) => bh_list[b] <= bh_list[a]

\* C3 (amended): bh is non-decreasing between consecutive sell events:
\* bh[d1] <= bh[d2] for rows d1 < d2 between them (a buy sets it, nothing but
\* a sell clears it).
C3_NonDecreasingBetweenSells ==
    \A a, b \in Rows : BetweenSells(a, b) => bh_list[a] <= bh_list[b]

\* between two consecutive sells, a row with bh = 0 is followed by a buy row with bh = 1
C3_Witness ==
    \E a, b \in Rows :
        BetweenSells(a, b) /\ bh_list[a] = 0 /\ bh_list[b] = 1 /\ df[b].action = "buy"

(***************************************************************************)
(* Properties of the merged table, the period list and the classification  *)
(***************************************************************************)
Done == pc = "done" /\ strategy_data # << >>     \* a metrics record was returned
FlagTable == [j \in Rows |-> [bh |-> bh_list[j], st |-> st_list[j],
                              mt |-> mt_list[j], lt |-> lt_list[j]]]

\* C4: the flagged table has exactly one row per return-series date, in date
\* order, also when a date has two or more decisions.
C4_OneRowPerDate ==
    df # << >> =>
        /\ Len(df) = Len(returns_df)
        /\ \A j \in 1 .. Len(df) : df[j].date = returns_df[j].date

LowerTable(t) == [j \in 1 .. Len(t) |-> [t[j] EXCEPT !.action = Lower(@)]]

\* C5: actions are read case-insensitively by the flag loop and by the period
\* walks alike: flags, trade periods and daily classification equal those of
\* the lower-cased decision stream.
C5_CaseInsensitive ==
    /\ FlagsComplete => FlagTable = RunFlags(LowerTable(df), 1, InitialFlags)
    /\ Done => /\ strategy_data[1].tradeReturns = TradeReturns(LowerTable(strategy_decisions))
               /\ strategy_data[1].dailyReturns = DailyReturns(LowerTable(strategy_decisions))

Inert(action) == Lower(action) \notin {"buy", "sell"}
Neutral(t) == [j \in 1 .. Len(t) |-> [t[j] EXCEPT !.action = IF Inert(@) THEN NaN ELSE @]]
Without(t, j) == SubSeq(t, 1, j - 1) \o SubSeq(t, j + 1, Len(t))

\* C6: a decision that is neither buy nor sell is inert: the flags are those of
\* a day with no decision, and the trade periods and the daily classification
\* are those of the decision stream with that decision removed.
C6_InertDecision ==
    /\ FlagsComplete => FlagTable = RunFlags(Neutral(df), 1, InitialFlags)
    /\ Done => \A j \in 1 .. Len(strategy_decisions) :
                  (Inert(strategy_decisions[j].action) /\ Len(strategy_decisions) > 1) =>
                      /\ strategy_data[1].tradeReturns
                            = TradeReturns(Without(strategy_decisions, j))
                      /\ strategy_data[1].dailyReturns
                            = DailyReturns(Without(strategy_decisions, j))

NPeriods == Len(returns_list)
ReturnDates == DatesOf(returns_df)
DecisionDates == DatesOf(strategy_decisions)

\* the position the decisions leave behind: the last buy or sell is a buy
Effective == {j \in 1 .. Len(strategy_decisions) :
                 Lower(strategy_decisions[j].action) \in {"buy", "sell"}}
HeldAtEnd == Effective # {} /\ Lower(strategy_decisions[MaxOf(Effective)].action) = "buy"

C8_PositiveDuration ==
    \A j \in 1 .. NPeriods :
        /\ returns_list[j].duration > 0
        /\ returns_list[j].startDate < returns_list[j].endDate

\* two decisions share a date at which one period ends and the next starts
C8_Witness ==
    /\ Done
    /\ \E a, b \in 1 .. Len(strategy_decisions) :
          /\ a < b
          /\ strategy_decisions[a].date = strategy_decisions[b].date
          /\ \E j \in 1 .. NPeriods - 1 :
                /\ returns_list[j].endDate = strategy_decisions[a].date
                /\ returns_list[j + 1].startDate = strategy_decisions[a].date

\* the trade periods, read as the classification reads its period list
TradePeriods == [j \in 1 .. NPeriods |->
                    [startDate |-> returns_list[j].startDate,
                     endDate |-> returns_list[j].endDate,
                     type |-> returns_list[j].periodType]]

\* C9: dailyReturns holds, for every return date, the type of the first trade
\* period whose inclusive range contains it, and leaves out exactly the dates
\* no trade period contains.
C9_DailyMatchesTrade ==
    Done => strategy_data[1].dailyReturns = Classified(TradePeriods, 1)

SingleBuyAtStart ==
    strategy_decisions = <<[date |-> data_start_date, action |-> "buy"]>>

NoDecisions == strategy_decisions = << >> /\ returns_df # << >>

\* C11 (as stated in the specification): for a strategy with no decisions and
\* a non-empty return series the result is a single not_held period spanning
\* the whole series, heldCumulativeReturn 0 and buyAndHoldReturn equal to the
\* compounded return of the whole series.
C11_NoDecisionsAsStated ==
    (pc = "done" /\ NoDecisions) =>
        /\ strategy_data # << >>
        /\ Len(strategy_data[1].tradeReturns) = 1
        /\ strategy_data[1].tradeReturns[1].periodType = "not_held"
        /\ strategy_data[1].tradeReturns[1].startDate = data_start_date
        /\ strategy_data[1].tradeReturns[1].endDate >= data_end_date
        /\ strategy_data[1].overallStats.heldCumulativeReturn = Zero
        /\ strategy_data[1].overallStats.buyAndHoldReturn = CumulativeReturn(returns_df)

\* C11 (amended): for a strategy with no decisions and a non-empty return
\* series the call goes from its entry straight to its return and the result
\* is the empty record: no period is built and neither heldCumulativeReturn
\* nor buyAndHoldReturn is computed.
C11_NoDecisions ==
    NoDecisions =>
        /\ pc \in {"start", "done"}
        /\ strategy_data = << >>
        /\ returns_list = << >>
        /\ held_cumulative_return = Zero
        /\ buy_and_hold_return = Zero

\* the call has returned for a series of several rows and no decision
C11_Witness ==
    /\ pc = "done" /\ NoDecisions
    /\ Len(returns_df) >= 2
    /\ CumulativeReturn(returns_df) # Zero

\* the working state of the computation is as it was on entry
Untouched ==
    /\ df = << >>
    /\ bh_list = << >> /\ st_list = << >> /\ mt_list = << >> /\ lt_list = << >>
    /\ position_stats = NoStats
    /\ returns_list = << >>
    /\ last_position_change = None
    /\ periods = << >> /\ daily_returns = << >>

\* C12: when the decision sequence or the return sequence is empty, the call
\* can always return (it does not raise), it returns the empty record, and it
\* returns without having computed anything.
C12_EmptyInput ==
    (strategy_decisions = << >> \/ returns_df = << >>) =>
        /\ pc = "start" => ENABLED ReturnEmpty
        /\ pc # "start" => (pc = "done" /\ strategy_data = << >>)
        /\ Untouched

\* the call has returned for decisions without any return row
C12_Witness ==
    /\ pc = "done"
    /\ returns_df = << >>
    /\ Len(strategy_decisions) >= 2
    /\ strategy_data = << >>

(***************************************************************************)
(* The return series builder (lines 74-89): the fetched price rows are     *)
(* sorted, the percentage change is computed over the sorted rows, then    *)
(* duplicate dates are dropped and outliers filtered.  A daily return is    *)
(* an exact rational; the NaN of the first row has denominator 0.           *)
(***************************************************************************)
MaxPrices == 4
MaxPriceDay == 2
MaxAbsReturn == 50

PriceDays == 0 .. MaxPriceDay
CloseSet == {100, 120, 200}

NaNReturn == [num |-> 0, den |-> 0]

\* line 83: close.pct_change() * 100 of one row against the row before it
PctChange(prev_close, close) == Rat((close - prev_close) * 100, prev_close)

\* line 82: sort_values('date'); rows of equal date come in any order
SortValues(t) ==
    LET n == Len(t)
        orders == {p \in Perms(1 .. n) :
                      \A a, b \in 1 .. n : a < b => t[p[a]].date <= t[p[b]].date}
    IN  {[i \in 1 .. n |-> t[p[i]]] : p \in orders}

\* line 83: the daily_return column, each row against the row before it
WithDailyReturn(t) ==
    [i \in 1 .. Len(t) |->
        [date |-> t[i].date, close |-> t[i].close,
         daily_return |-> IF i = 1 THEN NaNReturn
                          ELSE PctChange(t[i - 1].close, t[i].close)]]

\* line 85: drop_duplicates(subset='date', keep='first')
RECURSIVE DropDuplicates(_, _)
DropDuplicates(t, j) ==
    IF j > Len(t) THEN << >>
    ELSE IF \E i \in 1 .. j - 1 : t[i].date = t[j].date
         THEN DropDuplicates(t, j + 1)
         ELSE <<t[j]>> \o DropDuplicates(t, j + 1)

RetainedAnyNumber(r) == r.den # 0

\* line 86: daily_return.abs() <= 50; the comparison is False for NaN
Retained(r) == r.den # 0 /\ Abs(r.num) <= MaxAbsReturn * r.den

\* line 86: the rows whose daily_return passes the filter
RECURSIVE FilterOutliers(_, _)
FilterOutliers(t, j) ==
    IF j > Len(t) THEN << >>
    ELSE IF Retained(t[j].daily_return)
         THEN <<t[j]>> \o FilterOutliers(t, j + 1)
         ELSE FilterOutliers(t, j + 1)

\* the working frame and the position are all the builder writes
builderRest == <<returns_data, decisions_df, strategy_decisions, now, df, flagVars, position_stats,
                 returns_list, walkVars, periods, daily_returns, outVars>>

\* lines 74-81: if returns_data: the frame of the date and close columns
LoadReturns ==
    /\ pc = "load"
    /\ returns_data # << >>
    /\ returns_df' = returns_data
    /\ pc' = "sort_values"
    /\ UNCHANGED builderRest

\* lines 87-89: else: returns_df = pd.DataFrame()
NoReturns ==
    /\ pc = "load"
    /\ returns_data = << >>
    /\ returns_df' = << >>
    /\ pc' = "loaded"
    /\ UNCHANGED builderRest

\* line 82
SortByDate ==
    /\ pc = "sort_values"
    /\ returns_df' \in SortValues(returns_df)
    /\ pc' = "pct_change"
    /\ UNCHANGED builderRest

\* line 83
ComputeDailyReturn ==
    /\ pc = "pct_change"
    /\ returns_df' = WithDailyReturn(returns_df)
    /\ pc' = "drop_duplicates"
    /\ UNCHANGED builderRest

\* line 85
DropDuplicateDates ==
    /\ pc = "drop_duplicates"
    /\ returns_df' = DropDuplicates(returns_df, 1)
    /\ pc' = "filter"
    /\ UNCHANGED builderRest

\* line 86
FilterReturns ==
    /\ pc = "filter"
    /\ returns_df' = FilterOutliers(returns_df, 1)
    /\ pc' = "loaded"
    /\ UNCHANGED builderRest

\* any price rows, in any order, several rows of one date included
InitBuilder ==
    /\ returns_data \in UNION {[1 .. n -> [date : PriceDays, close : CloseSet]] :
                                 n \in 0 .. MaxPrices}
    /\ returns_df = << >>
    /\ decisions_df = << >>
    /\ strategy_decisions = << >>
    /\ now = [day |-> MaxPriceDay, tod |-> 0]
    /\ pc = "load"
    /\ Fresh

NextBuilder == \/ LoadReturns \/ NoReturns \/ SortByDate \/ ComputeDailyReturn
               \/ DropDuplicateDates \/ FilterReturns

SpecBuilder == InitBuilder /\ [][NextBuilder]_vars

\* the rows sorted by date, rows of equal date in their original order
StableSort(t) ==
    LET n == Len(t)
        p == CHOOSE q \in Perms(1 .. n) :
                \A a, b \in 1 .. n : a < b =>
                    \/ t[q[a]].date < t[q[b]].date
                    \/ t[q[a]].date = t[q[b]].date /\ q[a] < q[b]
    IN  [i \in 1 .. n |-> t[p[i]]]

\* the pipeline in the order the specification states it: sort, drop the
\* duplicate dates, compute the change over the retained rows, filter
Reference(t) == FilterOutliers(WithDailyReturn(DropDuplicates(StableSort(t), 1)), 1)

\* C13: the series the builder produces equals the reference pipeline applied
\* to the fetched rows (sort by date, keep the first row of each date in the
\* original order, compute each return against the preceding retained date,
\* drop the returns over 50% in magnitude).
C13_ReferencePipeline ==
    pc = "loaded" => returns_df = Reference(returns_data)

\* C14: every row of the built series has a daily return of magnitude at most
\* 50, and the dates of the series are strictly increasing, so no date has two
\* rows.
C14_RetainedRows ==
    pc = "loaded" =>
        /\ \A j \in 1 .. Len(returns_df) :
              /\ returns_df[j].daily_return.den > 0
              /\ Abs(returns_df[j].daily_return.num)
                    <= 50 * returns_df[j].daily_return.den
        /\ \A a, b \in 1 .. Len(returns_df) :
              a < b => returns_df[a].date < returns_df[b].date

\* a date fetched twice and an outlier dropped, with one row retained
C14_Witness ==
    /\ pc = "loaded"
    /\ Len(returns_data) = 4
    /\ Cardinality(DatesOf(returns_data)) = 3
    /\ Len(returns_df) = 1

\* the statistics have just been computed; nothing they are computed from
\* is written afterwards
StatsComputed == pc = "first_period"

Flagged(c) == {j \in 1 .. Len(df) : Column(c)[j] = 1}

\* C15: for every horizon the accuracy is the share of the rows flagged 1
\* whose daily return is positive, it lies between 0 and 1, and it is 0 when
\* no row is flagged.
C15_Accuracy ==
    StatsComputed =>
        \A c \in Cols :
            LET a == position_stats[c].accuracy
                up == {j \in Flagged(c) : df[j].daily_return > 0}
            IN  /\ a.den > 0
                /\ 0 <= a.num /\ a.num <= a.den
                /\ a.num * Cardinality(Flagged(c)) = Cardinality(up) * a.den
                /\ Flagged(c) = {} => a = Zero

\* a horizon flagged on a rising and on a falling day
C15_Witness ==
    /\ StatsComputed
    /\ Cardinality(Flagged("st")) = 2
    /\ position_stats["st"].accuracy = Rat(1, 2)

(***************************************************************************)
(* Several strategies in one decision input: the loop of line 105 runs the *)
(* whole computation once per strategy, in the order of unique()           *)
(***************************************************************************)
MaxMultiDay == 1
MaxMultiDec == 1

MultiDays == 0 .. MaxMultiDay
StrategyCounts == {0, 1, 2}

\* lines 105-106: the next strategy name and the decisions carrying it
NextStrategy ==
    /\ pc = "next_strategy"
    /\ strategy_decisions' = decisions_df[Len(strategy_data) + 1]
    /\ pc' = "start"
    /\ UNCHANGED <<returns_data, returns_df, decisions_df, now, df, flagVars,
                   position_stats, returns_list, walkVars, periods, daily_returns,
                   outVars>>

\* up to two strategies, each with its own non-empty date-sorted decisions,
\* over a return series on any set of days, every row with the same return;
\* now is in the day after the last possible date
InitMulti ==
    /\ returns_df \in {Table(S, [d \in S |-> 10]) : S \in SUBSET MultiDays}
    /\ decisions_df \in UNION {[1 .. n -> DecisionStreams(MultiDays, ActionSet, MaxMultiDec)
                                            \ {<< >>}] : n \in StrategyCounts}
    /\ strategy_decisions = IF decisions_df = << >> THEN << >> ELSE decisions_df[1]
    /\ now = [day |-> MaxMultiDay + 1, tod |-> 1]
    /\ returns_data = << >>
    /\ pc = "start"
    /\ Fresh

NextMulti == Next \/ NextStrategy

SpecMulti == InitMulti /\ [][NextMulti]_vars

\* the per-horizon statistics of one flagged table, computed on their own
RECURSIVE FlaggedSum(_, _, _, _)
FlaggedSum(t, f, c, j) ==
    IF j = 0 THEN 0 ELSE FlaggedSum(t, f, c, j - 1) + f[j][c] * t[j].daily_return

StatsOf(t) ==
    LET f == RunFlags(t, 1, InitialFlags)
    IN  [c \in Cols |->
            LET flagged == {j \in 1 .. Len(t) : f[j][c] = 1}
                up == {j \in flagged : t[j].daily_return > 0}
            IN  [cum_return |-> FlaggedSum(t, f, c, Len(t)),
                 accuracy |-> IF flagged = {} THEN Zero
                              ELSE Rat(Cardinality(up), Cardinality(flagged))]]

\* the record of one strategy computed from its own decisions alone
OwnRecord(r, decisions) ==
    /\ r.tradeReturns = TradeReturns(decisions)
    /\ r.dailyReturns = LET d == DailyReturns(decisions) IN SortedByTimestamp(d, Len(d))
    /\ r.overallStats.heldCumulativeReturn
          = SumHeld(TradeReturns(decisions), Len(TradeReturns(decisions)))
    /\ r.overallStats.buyAndHoldReturn = BuyAndHold(returns_df)
    /\ \E t \in MergeSorted(returns_df, decisions, 1) :
          r.overallStats.position_stats = StatsOf(t)

\* C16: the record of every strategy is the record its own decisions and the
\* return series give when computed alone, whatever strategies were processed
\* before it (the records change only where a strategy's computation ends).
C16_Independent ==
    pc \in {"next_strategy", "done"} =>
        \A i \in 1 .. Len(strategy_data) : OwnRecord(strategy_data[i], decisions_df[i])

\* two strategies processed, the first left holding a position, with
\* different records
C16_Witness ==
    /\ pc = "done"
    /\ Len(strategy_data) = 2
    /\ strategy_data[1] # strategy_data[2]
    /\ decisions_df[1][Len(decisions_df[1])].action = "buy"
    /\ strategy_data[2].tradeReturns # << >>

(***************************************************************************)
(* The three steps of the flag loop, row by row                            *)
(***************************************************************************)
NoDecisionRows == {j \in Rows : df[j].action \notin {"buy", "sell"}}
BuyRows == {j \in Rows : df[j].action = "buy"}

\* the date of the buy in force before row j: the latest buy or sell row
\* before j is a buy
LastBuy(j) ==
    LET earlier == {m \in 1 .. j - 1 : df[m].action \in {"buy", "sell"}}
    IN  IF earlier = {} THEN None
        ELSE IF df[MaxOf(earlier)].action = "buy" THEN df[MaxOf(earlier)].date
        ELSE None

Before(list, j) == IF j = 1 THEN 0 ELSE list[j - 1]

\* C17: on a row without a buy or sell decision, when a buy is in force and
\* days_since is the row's date minus that buy's date, st is 0 if days_since >
\* 20 and otherwise as on the row before, likewise mt with 100 and lt with
\* 250, and bh is as on the row before; when no buy is in force all four
\* flags are as on the row before.
C17_DecayStep ==
    \A j \in NoDecisionRows :
        /\ bh_list[j] = Before(bh_list, j)
        /\ IF LastBuy(j) = None
           THEN /\ st_list[j] = Before(st_list, j)
                /\ mt_list[j] = Before(mt_list, j)
                /\ lt_list[j] = Before(lt_list, j)
           ELSE LET days_since == df[j].date - LastBuy(j)
                IN  /\ st_list[j] = IF days_since > 20 THEN 0 ELSE Before(st_list, j)
                    /\ mt_list[j] = IF days_since > 100 THEN 0 ELSE Before(mt_list, j)
                    /\ lt_list[j] = IF days_since > 250 THEN 0 ELSE Before(lt_list, j)

\* st is still 1 on the row 20 days after the buy and 0 on the row 21 days
\* after it, where mt and lt are still 1
C17_Witness ==
    \E j \in NoDecisionRows :
        /\ j + 1 \in NoDecisionRows
        /\ LastBuy(j) # None
        /\ df[j].date - LastBuy(j) = 20 /\ st_list[j] = 1
        /\ df[j + 1].date - LastBuy(j) = 21 /\ st_list[j + 1] = 0
        /\ mt_list[j + 1] = 1 /\ lt_list[j + 1] = 1

\* C18: on a buy row st, mt and lt are 1 and bh is 1 if no buy was in force
\* and otherwise as on the row before; last_buy_date is the row's date after
\* the row, so the windows of the rows that follow are counted from this buy.
C18_BuyStep ==
    \A j \in BuyRows :
        /\ st_list[j] = 1 /\ mt_list[j] = 1 /\ lt_list[j] = 1
        /\ bh_list[j] = IF LastBuy(j) = None THEN 1 ELSE Before(bh_list, j)
        /\ j = Len(bh_list) => last_buy_date = df[j].date
        /\ (j + 1 \in NoDecisionRows /\ df[j + 1].date - df[j].date <= 20)
              => st_list[j + 1] = 1

\* a repeated buy after st and mt have decayed: it sets them again, and st is
\* still 1 on the next row, 20 days later
C18_Witness ==
    \E j \in BuyRows :
        /\ LastBuy(j) # None
        /\ Before(st_list, j) = 0 /\ Before(mt_list, j) = 0 /\ Before(bh_list, j) = 1
        /\ st_list[j] = 1 /\ mt_list[j] = 1 /\ bh_list[j] = 1
        /\ j + 1 \in NoDecisionRows
        /\ df[j + 1].date - df[j].date = 20 /\ st_list[j + 1] = 1

\* C19: on a sell row all four flags are 0 and last_buy_date is None after
\* the row, and every later row up to the next buy has all four flags 0.
C19_SellStep ==
    \A j \in SellRows :
        /\ bh_list[j] = 0 /\ st_list[j] = 0 /\ mt_list[j] = 0 /\ lt_list[j] = 0
        /\ j = Len(bh_list) => last_buy_date = None
        /\ \A m \in Rows :
              (j < m /\ \A i \in (j + 1) .. m : i \notin BuyRows) =>
                  /\ LastBuy(m + 1) = None
                  /\ m = Len(bh_list) => last_buy_date = None
                  /\ bh_list[m] = 0 /\ st_list[m] = 0 /\ mt_list[m] = 0 /\ lt_list[m] = 0

\* a sell with all four flags set on the row before, followed by a row
\* without decision
C19_Witness ==
    \E j \in SellRows :
        /\ Before(bh_list, j) = 1 /\ Before(st_list, j) = 1
        /\ Before(mt_list, j) = 1 /\ Before(lt_list, j) = 1
        /\ j + 1 \in NoDecisionRows
        /\ last_buy_date = None

(***************************************************************************)
(* The segmentation walk, decision by decision                             *)
(***************************************************************************)
Walking == pc = "decisions"          \* k - 1 decisions have been applied

\* the latest buy or sell among the decisions of the set is a buy
LatestIsBuy(S) ==
    LET e == S \cap Effective
    IN  e # {} /\ Lower(strategy_decisions[MaxOf(e)].action) = "buy"

DecisionsBefore(date) ==
    {j \in 1 .. Len(strategy_decisions) : strategy_decisions[j].date < date}

Applied == {strategy_decisions[j].date : j \in 1 .. k - 1}

\* C20: while the decisions are walked in date order, position_held is the
\* position the applied decisions leave (false at first, true after a buy,
\* false after a sell) and last_change is the date of the last applied
\* decision (the first decision date at first); every period closed so far
\* runs from one decision date to the next later one and is held exactly when
\* the latest buy or sell before its end is a buy, a period is closed for
\* every such pair of dates with a return row in it, and when the first
\* decision is later than the first return date the list starts with the
\* not_held period from the first return date to the first decision.
C20_SegmentationWalk ==
    Walking =>
        /\ position_held = LatestIsBuy(1 .. k - 1)
        /\ last_position_change = IF k = 1 THEN first_decision_date
                                  ELSE strategy_decisions[k - 1].date
        /\ \A j \in 1 .. NPeriods :
              LET p == returns_list[j]
              IN  /\ p.periodType = IF LatestIsBuy(DecisionsBefore(p.endDate))
                                    THEN "held" ELSE "not_held"
                  /\ p.startDate < p.endDate
                  /\ p.endDate \in DecisionDates
                  /\ p.startDate \in DecisionDates \/ (j = 1 /\ p.startDate = data_start_date)
                  /\ \A d \in DecisionDates : ~(p.startDate < d /\ d < p.endDate)
        /\ \A a, b \in Applied :
              (/\ a < b
               /\ \A d \in DecisionDates : ~(a < d /\ d < b)
               /\ \E d \in ReturnDates : a <= d /\ d <= b)
              => \E j \in 1 .. NPeriods :
                    returns_list[j].startDate = a /\ returns_list[j].endDate = b
        /\ first_decision_date > data_start_date =>
              /\ NPeriods >= 1
              /\ returns_list[1].periodType = "not_held"
              /\ returns_list[1].startDate = data_start_date
              /\ returns_list[1].endDate = first_decision_date

\* the walk has closed the not_held period before the first decision, a buy,
\* and the held period from that buy to a later sell
C20_Witness ==
    /\ Walking
    /\ k = 3
    /\ strategy_decisions[1].action = "buy" /\ strategy_decisions[2].action = "sell"
    /\ NPeriods = 2
    /\ returns_list[1].periodType = "not_held"
    /\ returns_list[1].startDate = data_start_date
    /\ returns_list[2].periodType = "held"
    /\ ~position_held

(***************************************************************************)
(* Labels and maximality of the periods, ordering of the flags              *)
(***************************************************************************)
\* the number of periods of the type of period j among the first j periods
RankInType(j) ==
    Cardinality({i \in 1 .. j : returns_list[i].periodType = returns_list[j].periodType})

\* C21: in the period list the k-th period of type held is labelled 'Held k'
\* and the k-th period of type not_held is labelled 'Not Held k'; the two
\* counts run independently and a boundary that is not recorded takes no
\* label.
C21_Labels ==
    \A j \in 1 .. NPeriods :
        returns_list[j].periodLabel =
            <<IF returns_list[j].periodType = "held" THEN "Held" ELSE "Not Held",
              RankInType(j)>>

\* a not_held period followed by two held periods: 'Not Held 1', 'Held 1',
\* 'Held 2'
C21_Witness ==
    /\ Done
    /\ NPeriods = 3
    /\ returns_list[1].periodLabel = <<"Not Held", 1>>
    /\ returns_list[2].periodLabel = <<"Held", 1>>
    /\ returns_list[3].periodLabel = <<"Held", 2>>

\* C22: every period is a maximal range of unchanged position: two
\* consecutive periods of the list that share an endpoint never have the same
\* type, also for repeated buys and repeated sells.
C22_MaximalPeriods ==
    \A j \in 1 .. NPeriods - 1 :
        returns_list[j].endDate = returns_list[j + 1].startDate
            => returns_list[j].periodType # returns_list[j + 1].periodType

\* C23: with the rows in non-decreasing date order and st < mt < lt, every
\* row of the flagged table has st <= mt <= lt <= bh, for every sequence of
\* buy, sell, other and no-decision rows.
C23_FlagOrder ==
    /\ st < mt /\ mt < lt
    /\ \A j \in Rows :
          /\ st_list[j] <= mt_list[j]
          /\ mt_list[j] <= lt_list[j]
          /\ lt_list[j] <= bh_list[j]

\* the chain bh >= st >= mt >= lt is broken: a row with st = 0 and mt = 1,
\* and a later row with mt = 0 and lt = 1
C23_Witness ==
    \E j, m \in Rows :
        /\ j < m
        /\ st_list[j] = 0 /\ mt_list[j] = 1
        /\ mt_list[m] = 0 /\ lt_list[m] = 1 /\ bh_list[m] = 1
        /\ IsSortedByDate(df)
====
